---- MODULE Spec2Model ----
(***************************************************************************)
(* A model of StockAnalyzer (src/stock_analyzer.py): the series store, the *)
(* cleaner, the indicator engine, the signal evaluator, the recommendation *)
(* mapper and the report stage, with the pandas column operations the code *)
(* calls modelled by what they compute.                                    *)
(*                                                                         *)
(* Floating-point values are modelled as a tagged value: NaN, +/-Inf, or a *)
(* finite decimal fixed-point number with 12 fractional digits, held as a  *)
(* sign and a little-endian sequence of base-10^4 limbs (TLC's integers    *)
(* are 32 bits wide, too narrow for one price times one weight).           *)
(***************************************************************************)
EXTENDS Integers, Sequences, FiniteSets, TLC

\* ------------------------------------------------------------------------
\* Magnitudes: little-endian limb sequences, no leading zero limb.
\* ------------------------------------------------------------------------
Base == 10 * 1000
FracLimbs == 1 + 2

RECURSIVE Strip(_)
Strip(a) ==
  IF a = <<>> THEN a
  ELSE IF a[Len(a)] = 0 THEN Strip(SubSeq(a, 1, Len(a) - 1)) ELSE a

Limb(a, i) == IF i >= 1 /\ i <= Len(a) THEN a[i] ELSE 0

Zeros(n) == [i \in 1..n |-> 0]

Shift(a, n) == IF a = <<>> THEN a ELSE Zeros(n) \o a

RECURSIVE AddC(_, _, _, _)
AddC(a, b, i, c) ==
  IF i > Len(a) /\ i > Len(b) THEN (IF c = 0 THEN <<>> ELSE <<c>>)
  ELSE LET s == Limb(a, i) + Limb(b, i) + c
       IN <<s % Base>> \o AddC(a, b, i + 1, s \div Base)

MagAdd(a, b) == AddC(a, b, 1, 0)

RECURSIVE SubC(_, _, _, _)
SubC(a, b, i, c) ==
  IF i > Len(a) THEN <<>>
  ELSE LET s == Limb(a, i) - Limb(b, i) - c
       IN IF s < 0 THEN <<s + Base>> \o SubC(a, b, i + 1, 1)
          ELSE <<s>> \o SubC(a, b, i + 1, 0)

\* a - b for a >= b
MagSub(a, b) == Strip(SubC(a, b, 1, 0))

RECURSIVE CmpFrom(_, _, _)
CmpFrom(a, b, i) ==
  IF i = 0 THEN 0
  ELSE IF a[i] > b[i] THEN 1
  ELSE IF a[i] < b[i] THEN -1
  ELSE CmpFrom(a, b, i - 1)

MagCmp(a, b) ==
  IF Len(a) > Len(b) THEN 1
  ELSE IF Len(a) < Len(b) THEN -1
  ELSE CmpFrom(a, b, Len(a))

RECURSIVE MulC(_, _, _, _)
MulC(a, k, i, c) ==
  IF i > Len(a) THEN (IF c = 0 THEN <<>> ELSE <<c>>)
  ELSE LET s == a[i] * k + c
       IN <<s % Base>> \o MulC(a, k, i + 1, s \div Base)

\* a * k for a limb-sized k
MagMulSmall(a, k) == IF k = 0 THEN <<>> ELSE MulC(a, k, 1, 0)

RECURSIVE DivC(_, _, _, _)
DivC(a, k, i, r) ==
  IF i = 0 THEN <<>>
  ELSE LET s == r * Base + a[i]
       IN DivC(a, k, i - 1, s % k) \o <<s \div k>>

\* floor(a / k) for a limb-sized k
MagDivSmall(a, k) == Strip(DivC(a, k, Len(a), 0))

RECURSIVE MulAcc(_, _, _)
MulAcc(a, b, i) ==
  IF i > Len(b) THEN <<>>
  ELSE MagAdd(Shift(MagMulSmall(a, b[i]), i - 1), MulAcc(a, b, i + 1))

MagMul(a, b) == MulAcc(a, b, 1)

\* the largest d <= guess with b * d <= r
RECURSIVE FixDigit(_, _, _)
FixDigit(r, b, d) ==
  IF d > 0 /\ MagCmp(MagMulSmall(b, d), r) > 0 THEN FixDigit(r, b, d - 1) ELSE d

\* the quotient digit of r by b (top limb of b at least Base / 2): guessed
\* from the top limbs, then corrected downwards
QuotientDigit(r, b) ==
  LET guess == (Limb(r, Len(b) + 1) * Base + Limb(r, Len(b))) \div b[Len(b)]
  IN IF MagCmp(r, b) < 0 THEN 0
     ELSE FixDigit(r, b, IF guess > Base - 1 THEN Base - 1 ELSE guess)

\* long division of a by b from limb i down, r the remainder so far
RECURSIVE LongDiv(_, _, _, _)
RECURSIVE LongDivDigit(_, _, _, _, _)
LongDiv(a, b, i, r) ==
  IF i = 0 THEN <<>>
  ELSE LongDivDigit(a, b, i, Strip(<<a[i]>> \o r), QuotientDigit(Strip(<<a[i]>> \o r), b))

LongDivDigit(a, b, i, r, d) ==
  LongDiv(a, b, i - 1, IF d = 0 THEN r ELSE MagSub(r, MagMulSmall(b, d))) \o <<d>>

\* the factor that brings the top limb of b to at least Base / 2
NormFactor(b) == Base \div (b[Len(b)] + 1)

LongDivAll(a, b) == Strip(LongDiv(a, b, Len(a), <<>>))

\* floor(a / b) for b # 0
MagDiv(a, b) == LongDivAll(MagMulSmall(a, NormFactor(b)), MagMulSmall(b, NormFactor(b)))

RECURSIVE NatMagOf(_)
NatMagOf(n) == IF n = 0 THEN <<>> ELSE <<n % Base>> \o NatMagOf(n \div Base)

\* floor(sqrt(n)) by Newton's iteration from above
RECURSIVE SqrtIter(_, _)
RECURSIVE SqrtStep(_, _, _)
SqrtIter(n, y) == SqrtStep(n, y, MagDivSmall(MagAdd(y, MagDiv(n, y)), 2))

SqrtStep(n, y, z) == IF MagCmp(z, y) < 0 THEN SqrtIter(n, z) ELSE y

\* floor(sqrt(v)) for a machine integer v, by bisection on lo..hi
RECURSIVE IntSqrt(_, _, _)
IntSqrt(v, lo, hi) ==
  IF lo = hi THEN lo
  ELSE LET mid == (lo + hi + 1) \div 2
       IN IF mid * mid <= v THEN IntSqrt(v, mid, hi) ELSE IntSqrt(v, lo, mid - 1)

\* the first guess is taken from the top one or two limbs, rounded up
MagSqrt(n) ==
  IF n = <<>> THEN <<>>
  ELSE LET len == Len(n)
           top == IF len % 2 = 1 THEN n[len] ELSE n[len] * Base + n[len - 1]
           low == IF len % 2 = 1 THEN (len - 1) \div 2 ELSE (len - 2) \div 2
       IN SqrtIter(n, Zeros(low) \o NatMagOf(IntSqrt(top, 0, Base) + 1))

\* ------------------------------------------------------------------------
\* Floats: NaN, +/-Inf, or a finite fixed-point number (sign s, magnitude m
\* in units of Base^-FracLimbs). Every result is truncated towards zero.
\* The sign of a zero is not kept: x / 0 is +/-Inf by the sign of x alone.
\* ------------------------------------------------------------------------
NaN == [k |-> "nan", s |-> 0, m |-> <<>>]
Inf(sg) == [k |-> "inf", s |-> sg, m |-> <<>>]
Fin(sg, mag) == [k |-> "fin", s |-> IF mag = <<>> THEN 0 ELSE sg, m |-> mag]
Zero == Fin(0, <<>>)

IsNaN(a) == a.k = "nan"
NotNaN(a) == a.k # "nan"
IsFin(a) == a.k = "fin"

\* the float of an integer literal
FromInt(n) ==
  IF n >= 0 THEN Fin(1, Shift(NatMagOf(n), FracLimbs))
  ELSE Fin(-1, Shift(NatMagOf(-n), FracLimbs))

FNeg(a) == [a EXCEPT !.s = -a.s]
FAbs(a) == [a EXCEPT !.s = IF a.s = 0 THEN 0 ELSE 1]

FAdd(a, b) ==
  IF IsNaN(a) \/ IsNaN(b) THEN NaN
  ELSE IF a.k = "inf" THEN (IF b.k = "inf" /\ b.s # a.s THEN NaN ELSE a)
  ELSE IF b.k = "inf" THEN b
  ELSE IF a.s = 0 THEN b
  ELSE IF b.s = 0 THEN a
  ELSE IF a.s = b.s THEN Fin(a.s, MagAdd(a.m, b.m))
  ELSE LET c == MagCmp(a.m, b.m)
       IN IF c = 0 THEN Zero
          ELSE IF c > 0 THEN Fin(a.s, MagSub(a.m, b.m))
          ELSE Fin(b.s, MagSub(b.m, a.m))

FSub(a, b) == FAdd(a, FNeg(b))

\* the product p of two magnitudes, brought back to FracLimbs fraction limbs
Rescaled(sg, p) ==
  IF Len(p) <= FracLimbs THEN Zero ELSE Fin(sg, SubSeq(p, FracLimbs + 1, Len(p)))

FMul(a, b) ==
  IF IsNaN(a) \/ IsNaN(b) THEN NaN
  ELSE IF a.k = "inf" \/ b.k = "inf"
       THEN (IF a.s = 0 \/ b.s = 0 THEN NaN ELSE Inf(a.s * b.s))
  ELSE IF a.s = 0 \/ b.s = 0 THEN Zero
  ELSE Rescaled(a.s * b.s, MagMul(a.m, b.m))

\* numpy division: x / 0 is +/-Inf, 0 / 0 is NaN, nothing is raised
FDiv(a, b) ==
  IF IsNaN(a) \/ IsNaN(b) THEN NaN
  ELSE IF a.k = "inf"
       THEN (IF b.k = "inf" THEN NaN ELSE Inf(IF b.s < 0 THEN -a.s ELSE a.s))
  ELSE IF b.k = "inf" THEN Zero
  ELSE IF b.s = 0 THEN (IF a.s = 0 THEN NaN ELSE Inf(a.s))
  ELSE IF a.s = 0 THEN Zero
  ELSE Fin(a.s * b.s, MagDiv(Shift(a.m, FracLimbs), b.m))

\* division by a positive count
FDivCount(a, n) == IF IsFin(a) THEN Fin(a.s, MagDivSmall(a.m, n)) ELSE a

FMulCount(a, n) == IF IsFin(a) THEN Fin(a.s, MagMulSmall(a.m, n)) ELSE a

FSqrt(a) ==
  IF IsNaN(a) \/ a.s < 0 THEN NaN
  ELSE IF a.k = "inf" THEN a
  ELSE Fin(1, MagSqrt(Shift(a.m, FracLimbs)))

\* -1, 0, 1 for two floats that are not NaN
FCmp(a, b) ==
  IF a.k = "inf" \/ b.k = "inf"
  THEN LET ra == IF a.k = "inf" THEN a.s * 2 ELSE 0
           rb == IF b.k = "inf" THEN b.s * 2 ELSE 0
       IN IF ra > rb THEN 1 ELSE IF ra < rb THEN -1 ELSE 0
  ELSE IF a.s # b.s THEN (IF a.s > b.s THEN 1 ELSE -1)
  ELSE IF a.s = 0 THEN 0
  ELSE a.s * MagCmp(a.m, b.m)

\* Python's comparisons: every comparison with NaN is False, != is True
FGt(a, b) == NotNaN(a) /\ NotNaN(b) /\ FCmp(a, b) > 0
FLt(a, b) == NotNaN(a) /\ NotNaN(b) /\ FCmp(a, b) < 0
FEq(a, b) == NotNaN(a) /\ NotNaN(b) /\ FCmp(a, b) = 0
FNe(a, b) == ~FEq(a, b)

\* ------------------------------------------------------------------------
\* pandas column operations. A column is a sequence of floats, oldest bar
\* first. Columns are built by balanced recursion (depth log n).
\* ------------------------------------------------------------------------
AsSeq(f) == f \o <<>>

Last(col) == col[Len(col)]

\* Series.diff(): x[t] - x[t-1], NaN at the first bar
Diff(x) ==
  AsSeq([t \in 1..Len(x) |-> IF t = 1 THEN NaN ELSE FSub(x[t], x[t - 1])])

\* Series.where(cond, 0) with cond = (x > 0): NaN > 0 is False, so NaN becomes 0
WherePositive(x) ==
  AsSeq([t \in 1..Len(x) |-> IF FGt(x[t], Zero) THEN x[t] ELSE Zero])

\* -Series.where(x < 0, 0)
NegWhereNegative(x) ==
  AsSeq([t \in 1..Len(x) |-> FNeg(IF FLt(x[t], Zero) THEN x[t] ELSE Zero)])

\* running <<sum of the observations, number of observations>> over lo..hi
RECURSIVE CumRun(_, _, _, _)
CumRun(x, lo, hi, acc) ==
  IF lo > hi THEN <<>>
  ELSE IF lo = hi
  THEN <<IF IsNaN(x[lo]) THEN acc ELSE <<FAdd(acc[1], x[lo]), acc[2] + 1>>>>
  ELSE LET mid == (lo + hi) \div 2
           L == CumRun(x, lo, mid, acc)
           R == CumRun(x, mid + 1, hi, Last(L))
       IN L \o R

Cum(x) == CumRun(x, 1, Len(x), <<Zero, 0>>)

\* sum and number of the observations in the window lo..hi, 1 <= lo <= hi
WindowSum(cum, lo, hi) ==
  IF lo = 1 THEN cum[hi]
  ELSE <<FSub(cum[hi][1], cum[lo - 1][1]), cum[hi][2] - cum[lo - 1][2]>>

\* Series.rolling(window=w).mean(): trailing, min_periods = w
\* the mean of a window of w bars, NaN unless all w are observations
WindowMean(ws, w) == IF ws[2] < w THEN NaN ELSE FDivCount(ws[1], w)

\* min_periods = 1 instead of w: a mean over the bars there are so far
MeansOverPartial(cum, w) ==
  AsSeq([t \in 1..Len(cum) |->
    IF t < w THEN FDivCount(cum[t][1], t)
    ELSE WindowMean(WindowSum(cum, t - w + 1, t), w)])

MeansOver(cum, w) ==
  AsSeq([t \in 1..Len(cum) |->
    IF t < w THEN NaN ELSE WindowMean(WindowSum(cum, t - w + 1, t), w)])

\* the window laid forward from the bar: bars t .. t+w-1
MeansOverLeading(cum, w) ==
  AsSeq([t \in 1..Len(cum) |->
    IF t + w - 1 > Len(cum) THEN NaN
    ELSE WindowMean(WindowSum(cum, t, t + w - 1), w)])

RollingMeanLeading(x, w) == MeansOverLeading(Cum(x), w)

RollingMean(x, w) == MeansOver(Cum(x), w)

CenteredMeansOver(cum) ==
  AsSeq([t \in 1..Len(cum) |->
    IF t < 2 \/ t + 1 > Len(cum) THEN NaN
    ELSE WindowMean(WindowSum(cum, t - 1, t + 1), 3)])

\* Series.rolling(window=3, center=True).mean(): bars t-1, t, t+1
RollingMeanCentered3(x) == CenteredMeansOver(Cum(x))

\* Series.rolling(window=w).std(): trailing sample standard deviation (ddof 1).
\* As pandas' roll_var: a window of one repeated value has variance 0, and a
\* sum of squared deviations below 0 is taken as 0.
Squares(x) == AsSeq([t \in 1..Len(x) |-> FMul(x[t], x[t])])

\* 1 at every bar that differs from the bar before
Changes(x) ==
  AsSeq([t \in 1..Len(x) |->
    IF t > 1 /\ FNe(x[t], x[t - 1]) THEN FromInt(1) ELSE Zero])

\* from the sum of squared deviations ss of w observations
StdOf(ss, w) == IF FLt(ss, Zero) THEN Zero ELSE FSqrt(FDivCount(ss, w - 1))

\* ws, sq: sum and sum of squares of the window; changed: the number of
\* bars in it that differ from the bar before
WindowStd(ws, sq, changed, w) ==
  IF ws[2] < w THEN NaN
  ELSE IF w > 1 /\ changed = Zero THEN Zero
  ELSE StdOf(FSub(sq, FDivCount(FMul(ws[1], ws[1]), w)), w)

StdsOver(cum, cumsq, changes, w) ==
  AsSeq([t \in 1..Len(cum) |->
    IF t < w THEN NaN
    ELSE WindowStd(WindowSum(cum, t - w + 1, t),
                   WindowSum(cumsq, t - w + 1, t)[1],
                   IF w > 1 THEN WindowSum(changes, t - w + 2, t)[1] ELSE Zero,
                   w)])

RollingStd(x, w) == StdsOver(Cum(x), Cum(Squares(x)), Cum(Changes(x)), w)

\* Series.fillna(method='ffill'): the nearest earlier observation
RECURSIVE FfillRun(_, _, _, _)
FfillRun(x, lo, hi, prev) ==
  IF lo > hi THEN <<>>
  ELSE IF lo = hi THEN <<IF IsNaN(x[lo]) THEN prev ELSE x[lo]>>
  ELSE LET mid == (lo + hi) \div 2
           L == FfillRun(x, lo, mid, prev)
       IN L \o FfillRun(x, mid + 1, hi, Last(L))

Ffill(x) == FfillRun(x, 1, Len(x), NaN)

Reverse(x) == AsSeq([t \in 1..Len(x) |-> x[Len(x) + 1 - t]])

\* Series.fillna(method='bfill'): the nearest later observation
Bfill(x) == Reverse(Ffill(Reverse(x)))

\* Series.pct_change(): x[t] / x[t-1] - 1 on the forward-filled column
\* (fill_method='pad' is the default of the pandas versions that still
\* accept fillna(method=...)), NaN at the first bar
PctChange(x) ==
  LET f == Ffill(x)
  IN AsSeq([t \in 1..Len(x) |->
       IF t = 1 THEN NaN ELSE FSub(FDiv(f[t], f[t - 1]), FromInt(1))])

\* One step of pandas' ewm mean (adjust=True, ignore_na=False, min_periods 0)
\* st = <<weighted, old_wt>>; weighted is NaN until the first observation
\* weighted: the mean so far; old: its weight, already decayed by 1 - alpha
EwmBlend(weighted, cur, old) ==
  IF IsNaN(cur) THEN <<weighted, old>>
  ELSE <<IF FNe(weighted, cur)
         THEN FDiv(FAdd(FMul(old, weighted), cur), FAdd(old, FromInt(1)))
         ELSE weighted,
         FAdd(old, FromInt(1))>>

EwmStep(st, cur, span) ==
  IF IsNaN(st[1]) THEN (IF IsNaN(cur) THEN st ELSE <<cur, st[2]>>)
  ELSE EwmBlend(st[1], cur, FDivCount(FMulCount(st[2], span - 1), span + 1))

RECURSIVE EwmRun(_, _, _, _, _)
EwmRun(x, span, lo, hi, st) ==
  IF lo > hi THEN <<>>
  ELSE IF lo = hi THEN <<EwmStep(st, x[lo], span)>>
  ELSE LET mid == (lo + hi) \div 2
           L == EwmRun(x, span, lo, mid, st)
       IN L \o EwmRun(x, span, mid + 1, hi, Last(L))

\* Series.ewm(span=span).mean()
Firsts(run) == AsSeq([t \in 1..Len(run) |-> run[t][1]])

EwmMean(x, span) == Firsts(EwmRun(x, span, 1, Len(x), <<NaN, FromInt(1)>>))

ColSub(x, y) == AsSeq([t \in 1..Len(x) |-> FSub(x[t], y[t])])

\* ------------------------------------------------------------------------
\* Indicator Engine: calculate_technical_indicators, per frame.
\* ------------------------------------------------------------------------
MaShortWindow == 50
MaLongWindow == 200
RsiWindow == 14
MacdFastSpan == 12
MacdSlowSpan == 26
MacdSignalSpan == 9
BbWindow == 20
BbWidth == 2
VolatilityWindow == 30
Hundred == FromInt(100)

\* gain / loss -> 100 - 100 / (1 + rs)
RsiOf(gain, loss) ==
  AsSeq([t \in 1..Len(gain) |->
    FSub(Hundred, FDiv(Hundred, FAdd(FromInt(1), FDiv(gain[t], loss[t]))))])

AverageGain(delta) == RollingMean(WherePositive(delta), RsiWindow)
AverageLoss(delta) == RollingMean(NegWhereNegative(delta), RsiWindow)

RsiOfDelta(delta) == RsiOf(AverageGain(delta), AverageLoss(delta))

RsiColumn(close) == RsiOfDelta(Diff(close))

IndicatorNames ==
  {"MA_50", "MA_200", "RSI", "MACD", "MACD_Signal", "MACD_Histogram",
   "BB_Middle", "BB_Upper", "BB_Lower", "Volatility", "Price_Change_Pct"}

MacdColumns(macd, macd_signal) ==
  [MACD |-> macd,
   MACD_Signal |-> macd_signal,
   MACD_Histogram |-> ColSub(macd, macd_signal)]

MacdOf(macd) == MacdColumns(macd, EwmMean(macd, MacdSignalSpan))

BollingerColumns(bb_middle, bb_std) ==
  [BB_Middle |-> bb_middle,
   BB_Upper |-> AsSeq([t \in 1..Len(bb_middle) |->
                  FAdd(bb_middle[t], FMulCount(bb_std[t], BbWidth))]),
   BB_Lower |-> AsSeq([t \in 1..Len(bb_middle) |->
                  FSub(bb_middle[t], FMulCount(bb_std[t], BbWidth))])]

Percent(pct) == AsSeq([t \in 1..Len(pct) |-> FMul(pct[t], Hundred)])

\* the eleven derived columns of one Close column
IndicatorColumns(close) ==
  [MA_50 |-> RollingMean(close, MaShortWindow),
   MA_200 |-> RollingMean(close, MaLongWindow),
   RSI |-> RsiColumn(close),
   Volatility |-> RollingStd(close, VolatilityWindow),
   Price_Change_Pct |-> Percent(PctChange(close))]
  @@ MacdOf(ColSub(EwmMean(close, MacdFastSpan), EwmMean(close, MacdSlowSpan)))
  @@ BollingerColumns(RollingMean(close, BbWindow), RollingStd(close, BbWindow))

\* ------------------------------------------------------------------------
\* Frames: a date index and named columns (Open, High, Low, Close, Volume,
\* and after calculate_technical_indicators the eleven derived columns).
\* ------------------------------------------------------------------------
BarCount(frame) == Len(frame.index)

HasIndicators(frame) == IndicatorNames \subseteq DOMAIN frame.cols

\* data.iloc[-1]: the latest bar, column name -> value
LatestRow(frame) ==
  [c \in DOMAIN frame.cols |-> frame.cols[c][BarCount(frame)]]

\* ------------------------------------------------------------------------
\* Cleaner: clean_and_preprocess_data, per frame.
\* ------------------------------------------------------------------------
OutlierThreshold == FDivCount(FromInt(1), 2)

\* the comparison with 0.5 written >= : a move of exactly 50% is flagged
OutliersFromHalf(close) ==
  LET price_changes == PctChange(close)
  IN {t \in 1..Len(close) : ~FLt(FAbs(price_changes[t]), OutlierThreshold)
                            /\ NotNaN(price_changes[t])}

\* the bars whose close moved more than 50% from the bar before
Outliers(close) ==
  LET price_changes == PctChange(close)
  IN {t \in 1..Len(close) : FGt(FAbs(price_changes[t]), OutlierThreshold)}

\* the forward fill alone: a gap before the first observation stays
FillForwardOnly(col) == Ffill(col)

\* fillna(method='ffill').fillna(method='bfill') on one column
Fill(col) == Bfill(Ffill(col))

\* the Close column the cleaner leaves: filled, flagged bars replaced by the
\* centered 3-bar rolling mean of the filled column
Smoothed(filled, outliers, smooth) ==
  IF outliers = {} THEN filled
  ELSE AsSeq([t \in 1..Len(filled) |->
         IF t \in outliers THEN smooth[t] ELSE filled[t]])

SmoothOutliers(filled) == Smoothed(filled, Outliers(filled), RollingMeanCentered3(filled))

CleanClose(close) == SmoothOutliers(Fill(close))

\* ------------------------------------------------------------------------
\* The market: the series a retrieval returns.  Every fixture has equal
\* Open, High, Low and Close and one bar per calendar day.
\* ------------------------------------------------------------------------
RampBars == 300
ShortBars == 10
FlatBars == 15
FallBars == 20

SeriesOf(ints) == AsSeq([t \in 1..Len(ints) |-> IF ints[t] < 0 THEN NaN ELSE FromInt(ints[t])])

\* close rising linearly from 100 to 400
RampSeries ==
  AsSeq([t \in 1..RampBars |->
    FAdd(FromInt(100), FDivCount(FromInt(300 * (t - 1)), RampBars - 1))])
\* fewer bars than any indicator window
ShortSeries == AsSeq([t \in 1..ShortBars |-> FromInt(100 + t)])
\* no close ever changes
FlatSeries == AsSeq([t \in 1..FlatBars |-> FromInt(100)])
\* every close below the one before
FallSeries == AsSeq([t \in 1..FallBars |-> FromInt(200 - 2 * t)])
\* an 80% one-bar spike followed by reversion
SpikeSeries == SeriesOf(<<100, 100, 180, 100, 100>>)
\* missing closes, one of them leading
GappySeries == SeriesOf(<<-1, 100, -1, 102, 104>>)
SingleSeries == SeriesOf(<<100>>)
\* the ramp up to bar ForkAt, then one less at every bar
ForkAt == RampBars - 50
ForkedSeries ==
  AsSeq([t \in 1..RampBars |->
    IF t > ForkAt THEN FSub(RampSeries[ForkAt], FromInt(t - ForkAt)) ELSE RampSeries[t]])

FixtureSeries ==
  <<RampSeries, ShortSeries, FlatSeries, FallSeries, SpikeSeries, GappySeries,
    SingleSeries, ForkedSeries>>

\* what ticker.history returns for a series: OHLCV columns on a daily index
FrameOf(close) ==
  [index |-> AsSeq([t \in 1..Len(close) |-> t]),
   cols |-> [Open |-> close, High |-> close, Low |-> close, Close |-> close,
             Volume |-> AsSeq([t \in 1..Len(close) |->
                          IF IsNaN(close[t]) THEN NaN ELSE FromInt(1000)])]]

\* ------------------------------------------------------------------------
\* The Close columns the fixtures can pass through (as retrieved and as
\* cleaned, over and over) and, computed once for each, what the cleaner
\* and the indicator engine make of it.
\* ------------------------------------------------------------------------
KnownEntry(close) ==
  [close |-> close, cleaned |-> CleanClose(close), derived |-> IndicatorColumns(close)]

IsKnown(table, close) == \E i \in DOMAIN table : table[i].close = close

Find(table, close) == table[CHOOSE i \in DOMAIN table : table[i].close = close]

\* table grown by the todo closes and by what the cleaner makes of them
RECURSIVE Grow(_, _)
RECURSIVE GrowBy(_, _, _)
Grow(table, todo) ==
  IF todo = <<>> THEN table
  ELSE IF IsKnown(table, Head(todo)) THEN Grow(table, Tail(todo))
  ELSE GrowBy(table, Tail(todo), KnownEntry(Head(todo)))

GrowBy(table, todo, entry) == Grow(Append(table, entry), <<entry.cleaned>> \o todo)

Known == Grow(<<>>, FixtureSeries)

FindOr(table, close, otherwise) ==
  IF IsKnown(table, close) THEN Find(table, close) ELSE otherwise

CleanCloseOf(close) ==
  FindOr(Known, close, [cleaned |-> CleanClose(close)]).cleaned

IndicatorsOf(close) ==
  FindOr(Known, close, [derived |-> IndicatorColumns(close)]).derived

\* the cleaner without its outlier mask: every close is replaced by the
\* centered mean
CleanFrameSmoothingAll(frame) ==
  [frame EXCEPT !.cols =
     [c \in DOMAIN frame.cols |->
        IF c = "Close" THEN RollingMeanCentered3(Fill(frame.cols.Close))
        ELSE Fill(frame.cols[c])]]

\* the cleaner assigning the smoothed close to the whole flagged row
CleanFrameSmoothingRows(frame) ==
  [frame EXCEPT !.cols =
     [c \in DOMAIN frame.cols |->
        IF c = "Volume" THEN Fill(frame.cols[c])
        ELSE Smoothed(Fill(frame.cols[c]), Outliers(Fill(frame.cols.Close)),
                      RollingMeanCentered3(Fill(frame.cols.Close)))]]

\* clean_and_preprocess_data on one frame: every column filled, then the
\* flagged closes smoothed
CleanFrame(frame) ==
  [frame EXCEPT !.cols =
     [c \in DOMAIN frame.cols |->
        IF c = "Close" THEN CleanCloseOf(frame.cols.Close) ELSE Fill(frame.cols[c])]]

\* calculate_technical_indicators on one frame: the derived columns are
\* added to (or replace those of) the frame
AddIndicators(frame) ==
  LET derived == IndicatorsOf(frame.cols.Close)
  IN [frame EXCEPT !.cols =
        [c \in DOMAIN frame.cols \cup IndicatorNames |->
           IF c \in IndicatorNames THEN derived[c] ELSE frame.cols[c]]]

\* ------------------------------------------------------------------------
\* Signal Evaluator and Recommendation Mapper.
\* ------------------------------------------------------------------------
RsiOverbought == 70
RsiOversold == 30
ScoreMin == -3
ScoreMax == 3

\* the words of a signal label: `"Bullish" in ma_signal` is a substring test
Words(label) ==
  CASE label = "Strong Bullish" -> {"Strong", "Bullish"}
    [] label = "Strong Bearish" -> {"Strong", "Bearish"}
    [] label = "Strong Buy" -> {"Strong", "Buy"}
    [] label = "Strong Sell" -> {"Strong", "Sell"}
    [] OTHER -> {label}

Contains(label, word) == word \in Words(label)

\* _get_ma_signal with >= for >: what the evaluator would be if an equality
\* passed the first branch
MaSignalNonStrict(data) ==
  IF FCmp(data.Close, data.MA_50) >= 0 /\ FCmp(data.MA_50, data.MA_200) >= 0
  THEN "Strong Bullish"
  ELSE IF FGt(data.Close, data.MA_50) THEN "Bullish"
  ELSE IF FLt(data.Close, data.MA_50) /\ FLt(data.MA_50, data.MA_200) THEN "Strong Bearish"
  ELSE "Bearish"

_get_ma_signal(data) ==
  LET close == data.Close
      ma50 == data.MA_50
      ma200 == data.MA_200
  IN IF FGt(close, ma50) /\ FGt(ma50, ma200) THEN "Strong Bullish"
     ELSE IF FGt(close, ma50) THEN "Bullish"
     ELSE IF FLt(close, ma50) /\ FLt(ma50, ma200) THEN "Strong Bearish"
     ELSE "Bearish"

\* _get_rsi_signal without its first branch: no reading is overbought
RsiSignalNeverOverbought(rsi) ==
  IF FLt(rsi, FromInt(RsiOversold)) THEN "Oversold" ELSE "Neutral"

_get_rsi_signal(rsi) ==
  IF FGt(rsi, FromInt(RsiOverbought)) THEN "Overbought"
  ELSE IF FLt(rsi, FromInt(RsiOversold)) THEN "Oversold"
  ELSE "Neutral"

_get_macd_signal(data) ==
  IF FGt(data.MACD, data.MACD_Signal) THEN "Bullish" ELSE "Bearish"

_get_bb_signal(data) ==
  IF FGt(data.Close, data.BB_Upper) THEN "Above upper band - potentially overbought"
  ELSE IF FLt(data.Close, data.BB_Lower) THEN "Below lower band - potentially oversold"
  ELSE "Within normal range"

Max(a, b) == IF a >= b THEN a ELSE b
Min(a, b) == IF a <= b THEN a ELSE b

\* the MA contribution without the weight of "Strong"
MaScoreUnweighted(ma_signal) ==
  IF Contains(ma_signal, "Bullish") THEN 1
  ELSE IF Contains(ma_signal, "Bearish") THEN -1
  ELSE 0

MaScore(ma_signal) ==
  IF Contains(ma_signal, "Bullish")
  THEN (IF Contains(ma_signal, "Strong") THEN 2 ELSE 1)
  ELSE IF Contains(ma_signal, "Bearish")
  THEN -(IF Contains(ma_signal, "Strong") THEN 2 ELSE 1)
  ELSE 0

RsiScore(rsi_signal) ==
  IF rsi_signal = "Overbought" THEN -1
  ELSE IF rsi_signal = "Oversold" THEN 1
  ELSE 0

MacdScore(macd_signal) == IF macd_signal = "Bullish" THEN 1 ELSE -1

\* the sum of the three contributions without the final max / min
ScoreUnclamped(ma_signal, rsi_signal, macd_signal) ==
  MaScore(ma_signal) + RsiScore(rsi_signal) + MacdScore(macd_signal)

_calculate_composite_score(ma_signal, rsi_signal, macd_signal) ==
  Max(ScoreMin,
      Min(ScoreMax, MaScore(ma_signal) + RsiScore(rsi_signal) + MacdScore(macd_signal)))

\* _get_recommendation with "Buy" for "Hold" as the .get default
RecommendationBuyByDefault(score) ==
  CASE score \in {2, 3} -> "Strong Buy"
    [] score = 1 -> "Buy"
    [] score = 0 -> "Hold"
    [] score = -1 -> "Sell"
    [] score \in {-2, -3} -> "Strong Sell"
    [] OTHER -> "Buy"

_get_recommendation(score) ==
  CASE score = 3 -> "Strong Buy"
    [] score = 2 -> "Strong Buy"
    [] score = 1 -> "Buy"
    [] score = 0 -> "Hold"
    [] score = -1 -> "Sell"
    [] score = -2 -> "Strong Sell"
    [] score = -3 -> "Strong Sell"
    [] OTHER -> "Hold"

\* latest_data: the latest bar with its indicator fields
_analyze_single_stock(latest_data) ==
  LET ma_signal == _get_ma_signal(latest_data)
      rsi_value == latest_data.RSI
      rsi_signal == _get_rsi_signal(rsi_value)
      macd_signal == _get_macd_signal(latest_data)
      bb_signal == _get_bb_signal(latest_data)
      score == _calculate_composite_score(ma_signal, rsi_signal, macd_signal)
  IN [ma_signal |-> ma_signal,
      rsi_value |-> rsi_value,
      rsi_signal |-> rsi_signal,
      macd_signal |-> macd_signal,
      bb_signal |-> bb_signal,
      score |-> score,
      recommendation |-> _get_recommendation(score)]

\* ------------------------------------------------------------------------
\* The analyzer.  Dictionaries that the code iterates are sequences of
\* entries in insertion order.
\* ------------------------------------------------------------------------
VARIABLES
  stocks,            \* self.stocks: <<[symbol, description]>>, the description
                     \* split at ' - ' into its parts
  stock_data,        \* self.stock_data: <<[symbol, data]>>
  analysis_results,  \* self.analysis_results: symbol -> analysis
  market,            \* symbol -> the frame a successful retrieval returns
  last,              \* the latest call: its name, what it raised and returned
  pipeline,          \* how far fetch, clean, indicators, analyze have run in
                     \* that order on the new analyzer, with the retrieval outcome
  probe              \* a helper applied on its own: its argument and result

vars == <<stocks, stock_data, analysis_results, market, last, pipeline, probe>>

Keys(entries) == {entries[i].symbol : i \in DOMAIN entries}

Get(entries, symbol) ==
  entries[CHOOSE i \in DOMAIN entries : entries[i].symbol = symbol].data

\* the dictionary rebound to the one new entry instead of being extended
PutAlone(entries, symbol, frame) == <<[symbol |-> symbol, data |-> frame]>>

\* entries[symbol] = frame: a new key goes last, an old key keeps its place
Put(entries, symbol, frame) ==
  IF symbol \in Keys(entries)
  THEN AsSeq([i \in DOMAIN entries |->
         IF entries[i].symbol = symbol THEN [symbol |-> symbol, data |-> frame]
         ELSE entries[i]])
  ELSE Append(entries, [symbol |-> symbol, data |-> frame])

Store(results, symbol, analysis) ==
  [k \in DOMAIN results \cup {symbol} |->
     IF k = symbol THEN analysis ELSE results[k]]

RetrievalOutcomes == {"data", "empty", "error"}

\* fetch_stock_data without its try / except: the first symbol whose
\* retrieval is empty or raises ends the loop
RECURSIVE FetchLoopAborting(_, _, _, _)
FetchLoopAborting(listing, entries, outcome, feed) ==
  IF listing = <<>> THEN entries
  ELSE IF outcome[Head(listing).symbol] = "data"
       THEN FetchLoopAborting(Tail(listing),
                              Put(entries, Head(listing).symbol, feed[Head(listing).symbol]),
                              outcome, feed)
       ELSE entries

\* the loop of fetch_stock_data over self.stocks: a symbol whose retrieval is
\* empty or raises is logged and skipped
RECURSIVE FetchLoop(_, _, _, _)
FetchLoop(listing, entries, outcome, feed) ==
  IF listing = <<>> THEN entries
  ELSE LET symbol == Head(listing).symbol
       IN IF outcome[symbol] = "data"
          THEN FetchLoop(Tail(listing), Put(entries, symbol, feed[symbol]), outcome, feed)
          ELSE FetchLoop(Tail(listing), entries, outcome, feed)

successful_fetches(listing, outcome) ==
  Cardinality({i \in DOMAIN listing : outcome[listing[i].symbol] = "data"})

CleanStore(entries) ==
  AsSeq([i \in DOMAIN entries |-> [entries[i] EXCEPT !.data = CleanFrame(@)]])

IndicatorStore(entries) ==
  AsSeq([i \in DOMAIN entries |-> [entries[i] EXCEPT !.data = AddIndicators(@)]])

\* the loop of analyze_trends: reading a column the frame lacks raises
\* KeyError and ends the loop, the results stored so far stay
RECURSIVE AnalyzeLoop(_, _)
AnalyzeLoop(entries, results) ==
  IF entries = <<>> THEN [results |-> results, raised |-> "none"]
  ELSE LET data == Head(entries).data
       IN IF ~HasIndicators(data) THEN [results |-> results, raised |-> "KeyError"]
          ELSE LET latest == LatestRow(data)
                   analysis == _analyze_single_stock(latest) @@
                               [current_price |-> latest.Close,
                                volatility |-> latest.Volatility]
               IN AnalyzeLoop(Tail(entries), Store(results, Head(entries).symbol, analysis))

\* create_visualizations.  The plotting libraries are outside the program:
\* library is whether their calls go through ("ok") or raise ("error").
\* A chart is named by its symbol, the two overview files by their file name.
RECURSIVE ChartLoop(_, _)
ChartLoop(entries, charts) ==
  IF entries = <<>> THEN [charts |-> charts, raised |-> "none"]
  ELSE IF ~HasIndicators(Head(entries).data)
       THEN [charts |-> charts, raised |-> "KeyError"]
       ELSE ChartLoop(Tail(entries), charts \cup {Head(entries).symbol})

\* (data.index[-1] - data.index[0]).days
Days(frame) == frame.index[BarCount(frame)] - frame.index[1]

Visualize(entries, library) ==
  IF library = "error" THEN [charts |-> {}, raised |-> "RenderError"]
  ELSE LET single == ChartLoop(entries, {})
       IN IF single.raised # "none" THEN single
          ELSE IF \E i \in DOMAIN entries : Days(entries[i].data) = 0
               THEN [charts |-> single.charts, raised |-> "ZeroDivisionError"]
               ELSE [charts |-> single.charts \cup
                                {"stock_comparison_analysis.png", "correlation_heatmap.png"},
                     raised |-> "none"]

\* generate_report
HasSector(description) == Len(description) > 1
SectorOf(description) == description[2]

Sectors(listing) ==
  {SectorOf(listing[i].description) :
     i \in {j \in DOMAIN listing : HasSector(listing[j].description)}}

SectorSymbols(listing, sector) ==
  {listing[i].symbol :
     i \in {j \in DOMAIN listing : HasSector(listing[j].description)
                                   /\ SectorOf(listing[j].description) = sector}}

RECURSIVE SumScores(_, _)
SumScores(symbols, results) ==
  IF symbols = {} THEN 0
  ELSE LET symbol == CHOOSE k \in symbols : TRUE
       IN results[symbol].score + SumScores(symbols \ {symbol}, results)

NoReport ==
  [written |-> FALSE, stocks_analyzed |-> 0, buy_signals |-> 0, sell_signals |-> 0,
   hold_signals |-> 0, analysed |-> {}, sector_scores |-> <<>>]

\* the report: its counts, the symbols of the individual section, and per
\* sector of more than one symbol the sum and number of the scores averaged.
\* self.analysis_results[symbol] raises KeyError for a symbol never analysed.
Report(listing, entries, results) ==
  LET shared == {sector \in Sectors(listing) :
                   Cardinality(SectorSymbols(listing, sector)) > 1}
  IN IF \E sector \in shared : ~(SectorSymbols(listing, sector) \subseteq DOMAIN results)
     THEN [raised |-> "KeyError", report |-> NoReport]
     ELSE [raised |-> "none",
           report |->
             [written |-> TRUE,
              stocks_analyzed |-> Len(entries),
              buy_signals |->
                Cardinality({k \in DOMAIN results : Contains(results[k].recommendation, "Buy")}),
              sell_signals |->
                Cardinality({k \in DOMAIN results : Contains(results[k].recommendation, "Sell")}),
              hold_signals |->
                Cardinality({k \in DOMAIN results : results[k].recommendation = "Hold"}),
              analysed |-> DOMAIN results,
              sector_scores |->
                [sector \in shared |->
                   [total |-> SumScores(SectorSymbols(listing, sector), results),
                    count |-> Cardinality(SectorSymbols(listing, sector))]]]]

\* print_summary: one row per analysed symbol
Summary(listing, results) ==
  {[symbol |-> listing[i].symbol,
    company_name |-> listing[i].description[1],
    recommendation |-> results[listing[i].symbol].recommendation,
    score |-> results[listing[i].symbol].score] :
     i \in {j \in DOMAIN listing : listing[j].symbol \in DOMAIN results}}

\* ------------------------------------------------------------------------
\* Calls and their outcomes.
\* ------------------------------------------------------------------------
NoCall ==
  [op |-> "none", raised |-> "none", stages |-> <<>>, fetched |-> FALSE,
   report |-> NoReport, charts |-> {}, printed |-> {}]

Call(op) == [NoCall EXCEPT !.op = op, !.stages = <<op>>]

NoOutcome == [k \in Keys(stocks) |-> "none"]
Off == [stage |-> -1, outcome |-> NoOutcome]

\* the next stage of the pipeline ran, or the order is broken
Advance(from) ==
  IF pipeline.stage = from THEN [pipeline EXCEPT !.stage = from + 1] ELSE Off

NoProbe == [fn |-> "none", arg |-> <<>>, done |-> FALSE, out |-> <<>>]

EmptyResults == [k \in {} |-> <<>>]

\* ------------------------------------------------------------------------
\* Stock lists and markets the analyzer is constructed over.
\* ------------------------------------------------------------------------
Listing(first, second) ==
  <<[symbol |-> "AAA", description |-> first], [symbol |-> "BBB", description |-> second]>>

Scenarios ==
  <<[stocks |-> <<[symbol |-> "AAA", description |-> <<"Alpha Corp", "Technology">>]>>,
     market |-> [AAA |-> FrameOf(RampSeries)]],
    [stocks |-> Listing(<<"Alpha Corp", "Technology">>, <<"Beta Inc", "Technology">>),
     market |-> [AAA |-> FrameOf(ShortSeries), BBB |-> FrameOf(FlatSeries)]],
    [stocks |-> Listing(<<"Alpha Corp", "Technology">>, <<"Beta Oil", "Energy">>),
     market |-> [AAA |-> FrameOf(SpikeSeries), BBB |-> FrameOf(FallSeries)]],
    [stocks |-> Listing(<<"Alpha Holdings">>, <<"Beta Inc", "Technology">>),
     market |-> [AAA |-> FrameOf(GappySeries), BBB |-> FrameOf(SingleSeries)]]>>

\* __init__: the stock list is kept, both dictionaries start empty
Constructed(scenario) ==
  /\ stocks = scenario.stocks
  /\ market = scenario.market
  /\ stock_data = <<>>
  /\ analysis_results = EmptyResults
  /\ last = NoCall
  /\ pipeline = [stage |-> 0, outcome |-> [k \in Keys(scenario.stocks) |-> "none"]]

Init ==
  /\ \E i \in DOMAIN Scenarios : Constructed(Scenarios[i])
  /\ probe = NoProbe

Libraries == {"ok", "error"}

FetchStockData ==
  \E outcome \in [Keys(stocks) -> RetrievalOutcomes] :
    /\ stock_data' = FetchLoop(stocks, stock_data, outcome, market)
    /\ last' = [Call("fetch_stock_data") EXCEPT
                  !.fetched = successful_fetches(stocks, outcome) > 0]
    /\ pipeline' = IF pipeline.stage = 0 THEN [stage |-> 1, outcome |-> outcome] ELSE Off
    /\ UNCHANGED <<stocks, analysis_results, market, probe>>

CleanAndPreprocessData ==
  /\ stock_data' = CleanStore(stock_data)
  /\ last' = Call("clean_and_preprocess_data")
  /\ pipeline' = Advance(1)
  /\ UNCHANGED <<stocks, analysis_results, market, probe>>

CalculateTechnicalIndicators ==
  /\ stock_data' = IndicatorStore(stock_data)
  /\ last' = Call("calculate_technical_indicators")
  /\ pipeline' = Advance(2)
  /\ UNCHANGED <<stocks, analysis_results, market, probe>>

AnalyzeTrends ==
  LET analysed == AnalyzeLoop(stock_data, analysis_results)
  IN /\ analysis_results' = analysed.results
     /\ last' = [Call("analyze_trends") EXCEPT !.raised = analysed.raised]
     /\ pipeline' = IF analysed.raised = "none" THEN Advance(3) ELSE Off
     /\ UNCHANGED <<stocks, stock_data, market, probe>>

CreateVisualizations ==
  \E library \in Libraries :
    LET drawn == Visualize(stock_data, library)
    IN /\ last' = [Call("create_visualizations") EXCEPT
                     !.raised = drawn.raised, !.charts = drawn.charts]
       /\ UNCHANGED <<stocks, stock_data, analysis_results, market, pipeline, probe>>

GenerateReport ==
  LET written == Report(stocks, stock_data, analysis_results)
  IN /\ last' = [Call("generate_report") EXCEPT
                   !.raised = written.raised, !.report = written.report]
     /\ UNCHANGED <<stocks, stock_data, analysis_results, market, pipeline, probe>>

PrintSummary ==
  /\ last' = [Call("print_summary") EXCEPT !.printed = Summary(stocks, analysis_results)]
  /\ UNCHANGED <<stocks, stock_data, analysis_results, market, pipeline, probe>>

\* run_complete_analysis: the stages in order, the first exception ends the
\* run and is re-raised.  Each Complete... is the run from one stage on.
StageNames ==
  <<"fetch_stock_data", "clean_and_preprocess_data", "calculate_technical_indicators",
    "analyze_trends", "create_visualizations", "generate_report">>

Ended(entries, results, raised, reached, charts, report) ==
  [stock_data |-> entries,
   analysis_results |-> results,
   call |-> [Call("run_complete_analysis") EXCEPT
               !.raised = raised, !.stages = SubSeq(StageNames, 1, reached),
               !.fetched = reached > 1, !.charts = charts, !.report = report]]

CompleteReport(entries, results, drawn, written) ==
  Ended(entries, results, written.raised, 6, drawn.charts, written.report)

CompleteCharts(listing, entries, results, drawn) ==
  IF drawn.raised # "none"
  THEN Ended(entries, results, drawn.raised, 5, drawn.charts, NoReport)
  ELSE CompleteReport(entries, results, drawn, Report(listing, entries, results))

CompleteAnalysis(listing, entries, analysed, library) ==
  IF analysed.raised # "none"
  THEN Ended(entries, analysed.results, analysed.raised, 4, {}, NoReport)
  ELSE CompleteCharts(listing, entries, analysed.results, Visualize(entries, library))

CompletePrepared(listing, entries, results, library) ==
  CompleteAnalysis(listing, entries, AnalyzeLoop(entries, results), library)

\* the run without the test of what fetch_stock_data returned
CompleteUnchecked(listing, retrieved, any, results, library) ==
  CompletePrepared(listing, IndicatorStore(CleanStore(retrieved)), results, library)

Complete(listing, retrieved, any, results, library) ==
  IF ~any THEN Ended(retrieved, results, "Exception", 1, {}, NoReport)
  ELSE CompletePrepared(listing, IndicatorStore(CleanStore(retrieved)), results, library)

Returned(outcome, run) ==
  /\ stock_data' = run.stock_data
  /\ analysis_results' = run.analysis_results
  /\ last' = run.call
  /\ pipeline' = IF pipeline.stage # 0 THEN Off
                 ELSE [stage |-> IF Len(run.call.stages) > 4 THEN 4 ELSE 1,
                       outcome |-> outcome]
  /\ UNCHANGED <<stocks, market, probe>>

RunCompleteAnalysis ==
  \E outcome \in [Keys(stocks) -> RetrievalOutcomes], library \in Libraries :
    Returned(outcome,
             Complete(stocks, FetchLoop(stocks, stock_data, outcome, market),
                      successful_fetches(stocks, outcome) > 0, analysis_results, library))

Next ==
  \/ FetchStockData
  \/ CleanAndPreprocessData
  \/ CalculateTechnicalIndicators
  \/ AnalyzeTrends
  \/ CreateVisualizations
  \/ GenerateReport
  \/ PrintSummary
  \/ RunCompleteAnalysis

Spec == Init /\ [][Next]_vars

\* ------------------------------------------------------------------------
\* The signal evaluator and the recommendation mapper applied on their own,
\* to every argument of a bounded set.
\* ------------------------------------------------------------------------
PriceLevels == 3
ScoreProbe == 5

Levels == {FromInt(v) : v \in 1..PriceLevels}
MaybeLevels == Levels \cup {NaN}
RsiLevels ==
  {NaN} \cup {FromInt(v) : v \in {RsiOversold - 10, RsiOversold, 50,
                                  RsiOverbought, RsiOverbought + 10}}
MacdLevels == {FromInt(-1), Zero, FromInt(1)}
BandLevels == {NaN, FromInt(2)}

MaSignals == {"Strong Bullish", "Bullish", "Strong Bearish", "Bearish"}
RsiSignals == {"Overbought", "Oversold", "Neutral"}
MacdSignals == {"Bullish", "Bearish"}

LatestRows ==
  [Close : Levels, MA_50 : MaybeLevels, MA_200 : MaybeLevels, RSI : RsiLevels,
   MACD : MacdLevels, MACD_Signal : {Zero, NaN},
   BB_Upper : BandLevels, BB_Lower : BandLevels]

Asked(fn, args) == {[fn |-> fn, arg |-> a, done |-> FALSE, out |-> <<>>] : a \in args}

ProbeInputs ==
  Asked("_get_recommendation", -ScoreProbe..ScoreProbe)
  \cup Asked("_calculate_composite_score", MaSignals \X RsiSignals \X MacdSignals)
  \cup Asked("_get_ma_signal", [Close : MaybeLevels, MA_50 : MaybeLevels, MA_200 : MaybeLevels])
  \cup Asked("_analyze_single_stock", LatestRows)

InitSignals ==
  /\ Constructed(Scenarios[2])
  /\ probe \in ProbeInputs

ApplyRecommendation ==
  /\ probe.fn = "_get_recommendation"
  /\ ~probe.done
  /\ probe' = [probe EXCEPT !.done = TRUE, !.out = _get_recommendation(probe.arg)]
  /\ UNCHANGED <<stocks, stock_data, analysis_results, market, last, pipeline>>

ApplyCompositeScore ==
  /\ probe.fn = "_calculate_composite_score"
  /\ ~probe.done
  /\ probe' = [probe EXCEPT
                 !.done = TRUE,
                 !.out = _calculate_composite_score(probe.arg[1], probe.arg[2], probe.arg[3])]
  /\ UNCHANGED <<stocks, stock_data, analysis_results, market, last, pipeline>>

ApplyMaSignal ==
  /\ probe.fn = "_get_ma_signal"
  /\ ~probe.done
  /\ probe' = [probe EXCEPT !.done = TRUE, !.out = _get_ma_signal(probe.arg)]
  /\ UNCHANGED <<stocks, stock_data, analysis_results, market, last, pipeline>>

ApplyAnalyzeSingleStock ==
  /\ probe.fn = "_analyze_single_stock"
  /\ ~probe.done
  /\ probe' = [probe EXCEPT !.done = TRUE, !.out = _analyze_single_stock(probe.arg)]
  /\ UNCHANGED <<stocks, stock_data, analysis_results, market, last, pipeline>>

NextSignals ==
  \/ ApplyRecommendation
  \/ ApplyCompositeScore
  \/ ApplyMaSignal
  \/ ApplyAnalyzeSingleStock

SpecSignals == InitSignals /\ [][NextSignals]_vars

\* ------------------------------------------------------------------------
\* The cleaner on its own: one analyzer per short market series over a few
\* prices and gaps (-1); the series is fetched and cleaned, over and over.
\* ------------------------------------------------------------------------
SeriesBars == 3

Prices == {-1, 80, 100, 200}

RECURSIVE Quotes(_)
Quotes(n) ==
  IF n = 0 THEN {<<>>}
  ELSE {Append(q, v) : q \in Quotes(n - 1), v \in Prices}

ShortMarkets == UNION {Quotes(n) : n \in 1..SeriesBars}

OneStock(quotes) ==
  [stocks |-> <<[symbol |-> "AAA", description |-> <<"Alpha Corp", "Technology">>]>>,
   market |-> [AAA |-> FrameOf(SeriesOf(quotes))]]

InitCleaner ==
  /\ \E quotes \in ShortMarkets : Constructed(OneStock(quotes))
  /\ probe = NoProbe

NextCleaner ==
  \/ FetchStockData
  \/ CleanAndPreprocessData

SpecCleaner == InitCleaner /\ [][NextCleaner]_vars

\* ------------------------------------------------------------------------
\* The indicator engine on two series that agree up to bar ForkAt: the ramp
\* and the series that leaves it there.
\* ------------------------------------------------------------------------
ForkedStocks ==
  [stocks |-> Listing(<<"Alpha Corp", "Technology">>, <<"Beta Inc", "Technology">>),
   market |-> [AAA |-> FrameOf(RampSeries), BBB |-> FrameOf(ForkedSeries)]]

InitFork ==
  /\ Constructed(ForkedStocks)
  /\ probe = NoProbe

NextFork ==
  \/ FetchStockData
  \/ CleanAndPreprocessData
  \/ CalculateTechnicalIndicators
  \/ AnalyzeTrends

SpecFork == InitFork /\ [][NextFork]_vars

\* ------------------------------------------------------------------------
\* Properties.
\* ------------------------------------------------------------------------
\* the symbols whose retrieval returned a non-empty series in the pipeline
Retrieved == {k \in Keys(stocks) : pipeline.outcome[k] = "data"}

\* the fields of the latest bar that the signal evaluator reads
EvaluatorFields ==
  {"MA_50", "MA_200", "RSI", "MACD", "MACD_Signal", "BB_Upper", "BB_Lower"}

\* C1: for every combination of MA, RSI and MACD signal the composite score
\* is an integer in [-3, 3], and so is every score stored in analysis_results.
\* (Spec)
C1_ScoreInRange ==
  /\ \A ma \in MaSignals, rsi \in RsiSignals, macd \in MacdSignals :
       _calculate_composite_score(ma, rsi, macd) \in -3..3
  /\ \A k \in DOMAIN analysis_results : analysis_results[k].score \in -3..3

\* analyze_trends has stored a score of -2 (a flat series: Bearish, Neutral,
\* Bearish)
C1_Witness ==
  /\ last.op = "analyze_trends"
  /\ last.raised = "none"
  /\ \E k \in DOMAIN analysis_results : analysis_results[k].score = -2

\* C2: _get_recommendation maps 3 and 2 to Strong Buy, 1 to Buy, 0 to Hold,
\* -1 to Sell, -2 and -3 to Strong Sell and every other score to Hold; the
\* recommendation of an analysis is that of its score alone.  (SpecSignals)
C2_RecommendationTable ==
  LET Table(n) == IF n \in {2, 3} THEN "Strong Buy"
                  ELSE IF n = 1 THEN "Buy"
                  ELSE IF n = -1 THEN "Sell"
                  ELSE IF n \in {-2, -3} THEN "Strong Sell"
                  ELSE "Hold"
  IN /\ (probe.fn = "_get_recommendation" /\ probe.done)
          => probe.out = Table(probe.arg)
     /\ (probe.fn = "_analyze_single_stock" /\ probe.done)
          => probe.out.recommendation = Table(probe.out.score)

\* a score outside [-3, 3] has been mapped to Hold
C2_Witness ==
  /\ probe.fn = "_get_recommendation"
  /\ probe.done
  /\ probe.arg = -ScoreProbe
  /\ probe.out = "Hold"

\* C3 (as claimed): after analyze_trends no symbol whose latest bar has an
\* undefined indicator field has a Signal Set in analysis_results.  (Spec)
C3_UndefinedFieldRefused ==
  (last.op = "analyze_trends" /\ last.raised = "none") =>
    \A i \in DOMAIN stock_data :
      (\E c \in EvaluatorFields : IsNaN(LatestRow(stock_data[i].data)[c]))
        => stock_data[i].symbol \notin DOMAIN analysis_results

\* C4: after fetch, clean, indicators and analyze in that order on a new
\* analyzer, the analysed symbols are exactly the symbols whose retrieval
\* returned a non-empty series, whatever the outcome for the others.  (Spec)
C4_FailuresIsolated ==
  pipeline.stage = 4 => DOMAIN analysis_results = Retrieved

\* the first symbol's retrieval raised and the second symbol was analysed
C4_Witness ==
  /\ pipeline.stage = 4
  /\ last.op = "analyze_trends"
  /\ \E i \in DOMAIN stocks :
       /\ i > 1
       /\ pipeline.outcome[stocks[1].symbol] = "error"
       /\ pipeline.outcome[stocks[i].symbol] = "data"
       /\ DOMAIN analysis_results = {stocks[i].symbol}

\* C5 (as claimed): run_complete_analysis never ends by raising an error of
\* the program's own, whatever the retrieval outcome.  (Spec)
C5_RunNeverRaises ==
  (last.op = "run_complete_analysis" /\ last.raised # "RenderError")
    => last.raised = "none"

\* C6 (as claimed): generate_report and print_summary complete without error
\* whichever symbols of self.stocks are absent from analysis_results.  (Spec)
C6_ReportTolerant ==
  last.op \in {"generate_report", "print_summary"} => last.raised = "none"

\* C7: for defined close, MA_50 and MA_200, _get_ma_signal is Strong Bullish
\* exactly when close > MA_50 > MA_200, Bullish exactly when close > MA_50
\* and not MA_50 > MA_200, Strong Bearish exactly when close < MA_50 < MA_200,
\* and Bearish otherwise; an equality fails the strict branch.  (SpecSignals)
C7_MaSignalTable ==
  (/\ probe.fn = "_get_ma_signal"
   /\ probe.done
   /\ NotNaN(probe.arg.Close) /\ NotNaN(probe.arg.MA_50) /\ NotNaN(probe.arg.MA_200))
  => LET above == FCmp(probe.arg.Close, probe.arg.MA_50) > 0
         below == FCmp(probe.arg.Close, probe.arg.MA_50) < 0
         rising == FCmp(probe.arg.MA_50, probe.arg.MA_200) > 0
         falling == FCmp(probe.arg.MA_50, probe.arg.MA_200) < 0
     IN /\ probe.out = "Strong Bullish" <=> (above /\ rising)
        /\ probe.out = "Bullish" <=> (above /\ ~rising)
        /\ probe.out = "Strong Bearish" <=> (below /\ falling)
        /\ probe.out = "Bearish" <=> ~(above \/ (below /\ falling))

\* close = MA_50 > MA_200: no strict branch holds, the signal is Bearish
C7_Witness ==
  /\ probe.fn = "_get_ma_signal"
  /\ probe.done
  /\ NotNaN(probe.arg.Close)
  /\ probe.arg.Close = probe.arg.MA_50
  /\ FGt(probe.arg.MA_50, probe.arg.MA_200)
  /\ probe.out = "Bearish"

\* C8: the composite score is clamp(MA + RSI + MACD, -3, 3) with MA +2 / +1 /
\* -2 / -1, RSI -1 / +1 / 0 and MACD +1 / -1, and two latest bars that differ
\* only in their Bollinger fields get the same score and recommendation.
\* (SpecSignals)
C8_ScoreIsClampedSum ==
  LET Ma(g) == CASE g = "Strong Bullish" -> 2 [] g = "Bullish" -> 1
                 [] g = "Strong Bearish" -> -2 [] g = "Bearish" -> -1
      Rsi(g) == CASE g = "Overbought" -> -1 [] g = "Oversold" -> 1 [] g = "Neutral" -> 0
      Macd(g) == CASE g = "Bullish" -> 1 [] g = "Bearish" -> -1
      Clamp(n) == IF n > 3 THEN 3 ELSE IF n < -3 THEN -3 ELSE n
  IN /\ (probe.fn = "_calculate_composite_score" /\ probe.done)
          => probe.out = Clamp(Ma(probe.arg[1]) + Rsi(probe.arg[2]) + Macd(probe.arg[3]))
     /\ (probe.fn = "_analyze_single_stock" /\ probe.done)
          => /\ probe.out.score = Clamp(Ma(probe.out.ma_signal) + Rsi(probe.out.rsi_signal)
                                        + Macd(probe.out.macd_signal))
             /\ \A upper \in BandLevels, lower \in BandLevels :
                  LET other == _analyze_single_stock(
                                 [probe.arg EXCEPT !.BB_Upper = upper, !.BB_Lower = lower])
                  IN /\ other.score = probe.out.score
                     /\ other.recommendation = probe.out.recommendation

\* a latest bar above its upper band whose contributions 2 + 1 + 1 are
\* clamped to 3
C8_Witness ==
  /\ probe.fn = "_analyze_single_stock"
  /\ probe.done
  /\ probe.out.ma_signal = "Strong Bullish"
  /\ probe.out.rsi_signal = "Oversold"
  /\ probe.out.macd_signal = "Bullish"
  /\ probe.out.bb_signal = "Above upper band - potentially overbought"
  /\ probe.out.score = 3

\* C9 (as claimed): at every bar from the 14th on where the 14-bar average
\* loss is zero, calculate_technical_indicators gives RSI = 100.  (Spec)
C9_RsiSaturates ==
  last.op = "calculate_technical_indicators" =>
    \A i \in DOMAIN stock_data :
      LET data == stock_data[i].data
          loss == AverageLoss(Diff(data.cols.Close))
      IN \A t \in RsiWindow..BarCount(data) :
           loss[t] = Zero => data.cols.RSI[t] = Hundred

\* the symbols whose market series is the 300-bar ramp and that went through
\* the whole pipeline on a new analyzer
RampAnalysed ==
  {k \in DOMAIN analysis_results :
     pipeline.stage = 4 /\ market[k].cols.Close = RampSeries}

RampLatest(k) == LatestRow(Get(stock_data, k))

\* C10 (as claimed): end to end on the ramp, the latest bar has RSI near 100
\* and MACD positive, the score is +3 and the recommendation Strong Buy.
\* (Spec)
C10_RampScoresThree ==
  \A k \in RampAnalysed :
    /\ FGt(analysis_results[k].rsi_value, FromInt(99))
    /\ FGt(RampLatest(k).MACD, Zero)
    /\ analysis_results[k].score = 3
    /\ analysis_results[k].recommendation = "Strong Buy"

\* C10 (amended): end to end on the ramp, the latest bar has RSI near 100
\* and MACD positive; RSI above 70 is Overbought and takes 1 off, so the
\* score is +2 (2 - 1 + 1, nothing clamped) and the recommendation Strong
\* Buy.  (Spec)
C10_RampScoresTwo ==
  \A k \in RampAnalysed :
    /\ FGt(analysis_results[k].rsi_value, FromInt(99))
    /\ FGt(RampLatest(k).MACD, Zero)
    /\ analysis_results[k].ma_signal = "Strong Bullish"
    /\ analysis_results[k].rsi_signal = "Overbought"
    /\ analysis_results[k].macd_signal = "Bullish"
    /\ analysis_results[k].score = 2
    /\ analysis_results[k].recommendation = "Strong Buy"

\* the ramp has been fetched, cleaned, given its indicators and analysed
C10_Witness ==
  /\ RampAnalysed # {}
  /\ \A k \in RampAnalysed : BarCount(Get(stock_data, k)) = RampBars
  /\ last.op = "analyze_trends"

\* ------------------------------------------------------------------------
\* The cleaner, stated from the pre-state and post-state of a
\* clean_and_preprocess_data step.
\* ------------------------------------------------------------------------
RawColumns == {"Open", "High", "Low", "Close", "Volume"}

Defined(col) == \A t \in DOMAIN col : NotNaN(col[t])

SomeDefined(col) == \E t \in DOMAIN col : NotNaN(col[t])

\* the nearest earlier observation, or else the nearest later one
NearestFill(col) ==
  [t \in DOMAIN col |->
     LET before == {u \in 1..t : NotNaN(col[u])}
         after == {u \in t..Len(col) : NotNaN(col[u])}
     IN IF before # {} THEN col[CHOOSE u \in before : \A v \in before : v <= u]
        ELSE IF after # {} THEN col[CHOOSE u \in after : \A v \in after : u <= v]
        ELSE NaN]

\* abs(close[t] / close[t-1] - 1) > 0.5
Flagged(close, t) ==
  /\ t > 1
  /\ FGt(FAbs(FSub(FDiv(close[t], close[t - 1]), FromInt(1))), FDivCount(FromInt(1), 2))

Mean3(close, t) == FDivCount(FAdd(FAdd(close[t - 1], close[t]), close[t + 1]), 3)

\* no missing value in any column and no close more than 50% from the last
AlreadyClean(frame) ==
  /\ \A c \in DOMAIN frame.cols : Defined(frame.cols[c])
  /\ \A t \in DOMAIN frame.cols.Close : ~Flagged(frame.cols.Close, t)

CleanStep == last'.op = "clean_and_preprocess_data"

\* C11: clean_and_preprocess_data returns every series that has no missing
\* value and no close moving more than 50% identical to its input, so a
\* second run changes nothing.  (SpecCleaner)
C11_CleanSeriesUnchanged ==
  [][CleanStep =>
       \A i \in DOMAIN stock_data :
         AlreadyClean(stock_data[i].data) => stock_data'[i] = stock_data[i]]_vars

\* a series with a 25% move has been cleaned and is what the market returned
C11_Witness ==
  /\ last.op = "clean_and_preprocess_data"
  /\ \E i \in DOMAIN stock_data :
       /\ stock_data[i].data = market[stock_data[i].symbol]
       /\ AlreadyClean(stock_data[i].data)
       /\ BarCount(stock_data[i].data) > 1
       /\ stock_data[i].data.cols.Close[1] # stock_data[i].data.cols.Close[2]

\* C12: clean_and_preprocess_data keeps the symbols of the series store and
\* the bars and dates of every series, leaves Open, High, Low and Volume as
\* filled, and changes no Close of the filled series but those of flagged
\* bars.  (SpecCleaner)
C12_CleanFrameEffect ==
  [][CleanStep =>
       /\ Len(stock_data') = Len(stock_data)
       /\ \A i \in DOMAIN stock_data :
            LET before == stock_data[i].data
                after == stock_data'[i].data
                filled == NearestFill(before.cols.Close)
            IN /\ stock_data'[i].symbol = stock_data[i].symbol
               /\ after.index = before.index
               /\ DOMAIN after.cols = DOMAIN before.cols
               /\ \A c \in RawColumns \ {"Close"} :
                    after.cols[c] = NearestFill(before.cols[c])
               /\ Len(after.cols.Close) = BarCount(before)
               /\ \A t \in DOMAIN filled :
                    ~Flagged(filled, t) => after.cols.Close[t] = filled[t]]_vars

\* a flagged close was smoothed and the Open of that bar is as retrieved
C12_Witness ==
  /\ pipeline.stage = 2
  /\ \E i \in DOMAIN stock_data :
       LET raw == market[stock_data[i].symbol]
           data == stock_data[i].data
       IN /\ Defined(raw.cols.Close)
          /\ \E t \in DOMAIN raw.cols.Close :
               /\ Flagged(raw.cols.Close, t)
               /\ NotNaN(data.cols.Close[t])
               /\ data.cols.Close[t] # raw.cols.Close[t]
               /\ data.cols.Open[t] = raw.cols.Open[t]
          /\ data.index = raw.index

\* C13: on the filled series a close is smoothed exactly when it moved more
\* than 50% from the close before: a flagged close with both neighbours
\* becomes the mean of the filled closes at t-1, t and t+1, and every
\* unflagged close stays as filled.  (SpecCleaner)
C13_FlaggedSmoothed ==
  [][CleanStep =>
       \A i \in DOMAIN stock_data :
         LET filled == NearestFill(stock_data[i].data.cols.Close)
             cleaned == stock_data'[i].data.cols.Close
         IN \A t \in DOMAIN filled :
              /\ (Flagged(filled, t) /\ t < Len(filled)) => cleaned[t] = Mean3(filled, t)
              /\ ~Flagged(filled, t) => cleaned[t] = filled[t]]_vars

\* a one-bar spike of 100% followed by reversion: 100, 200, 100 has become
\* 100, 133.33.., 100 (the fall back of exactly 50% is not flagged)
C13_Witness ==
  /\ pipeline.stage = 2
  /\ \E i \in DOMAIN stock_data :
       /\ market[stock_data[i].symbol].cols.Close = SeriesOf(<<100, 200, 100>>)
       /\ stock_data[i].data.cols.Close =
            <<FromInt(100), FDivCount(FromInt(400), 3), FromInt(100)>>

\* ------------------------------------------------------------------------
\* The indicator engine, stated on the series store right after
\* calculate_technical_indicators.
\* ------------------------------------------------------------------------
JustCalculated == last.op = "calculate_technical_indicators"

\* the bars up to which two columns are the same
AgreeUpTo(one, other) ==
  {t \in 1..Min(Len(one), Len(other)) : SubSeq(one, 1, t) = SubSeq(other, 1, t)}

\* C14: no look-ahead: two series of the store that agree on every bar up
\* to t have the same value at t in every derived column, whatever their
\* later bars are.  (SpecFork)
C14_NoLookAhead ==
  JustCalculated =>
    \A i \in DOMAIN stock_data, j \in DOMAIN stock_data :
      \A t \in AgreeUpTo(stock_data[i].data.cols.Close, stock_data[j].data.cols.Close) :
        \A c \in IndicatorNames :
          stock_data[i].data.cols[c][t] = stock_data[j].data.cols[c][t]

\* the ramp and the series that leaves it at bar ForkAt have their
\* indicators: the same defined MA_200, RSI and MACD at bar ForkAt, and
\* another MA_50 at the last bar
C14_Witness ==
  /\ JustCalculated
  /\ Len(stock_data) = 2
  /\ LET one == stock_data[1].data.cols
         other == stock_data[2].data.cols
     IN /\ AgreeUpTo(one.Close, other.Close) = 1..ForkAt
        /\ NotNaN(one.MA_200[ForkAt]) /\ one.MA_200[ForkAt] = other.MA_200[ForkAt]
        /\ NotNaN(one.RSI[ForkAt]) /\ one.RSI[ForkAt] = other.RSI[ForkAt]
        /\ NotNaN(one.MACD[ForkAt]) /\ one.MACD[ForkAt] = other.MACD[ForkAt]
        /\ one.MA_50[RampBars] # other.MA_50[RampBars]

\* EMA[1] = x[1], EMA[t] = a x[t] + (1 - a) EMA[t-1] with a = 2 / (span + 1),
\* over bars lo..hi from the value prev at bar lo - 1
RECURSIVE RecurrenceRun(_, _, _, _, _)
RecurrenceRun(x, span, lo, hi, prev) ==
  IF lo > hi THEN <<>>
  ELSE IF lo = hi
  THEN <<IF lo = 1 THEN x[1]
         ELSE FDivCount(FAdd(FMulCount(x[lo], 2), FMulCount(prev, span - 1)), span + 1)>>
  ELSE LET mid == (lo + hi) \div 2
           L == RecurrenceRun(x, span, lo, mid, prev)
       IN L \o RecurrenceRun(x, span, mid + 1, hi, Last(L))

RecurrenceEma(x, span) == RecurrenceRun(x, span, 1, Len(x), NaN)

\* equal to six decimals
Near(a, b) ==
  /\ NotNaN(a) /\ NotNaN(b)
  /\ FLt(FAbs(FSub(a, b)), FDivCount(FromInt(1), 1000000))

\* C15 (as claimed): MACD is the span-12 minus the span-26 EMA of close,
\* MACD_Signal the span-9 EMA of MACD, each EMA seeded by the first value
\* and following EMA[t] = a x[t] + (1 - a) EMA[t-1], and MACD_Histogram is
\* MACD minus MACD_Signal.  (Spec)
C15_EmaRecurrence ==
  JustCalculated =>
    \A i \in DOMAIN stock_data :
      LET cols == stock_data[i].data.cols
      IN Defined(cols.Close) =>
           \A t \in DOMAIN cols.Close :
             /\ Near(cols.MACD[t],
                     FSub(RecurrenceEma(cols.Close, MacdFastSpan)[t],
                          RecurrenceEma(cols.Close, MacdSlowSpan)[t]))
             /\ Near(cols.MACD_Signal[t], RecurrenceEma(cols.MACD, MacdSignalSpan)[t])
             /\ cols.MACD_Histogram[t] = FSub(cols.MACD[t], cols.MACD_Signal[t])

\* the sum of the closes of bars lo..hi, by halves
RECURSIVE SumOver(_, _, _)
SumOver(close, lo, hi) ==
  IF lo > hi THEN Zero
  ELSE IF lo = hi THEN close[lo]
  ELSE FAdd(SumOver(close, lo, (lo + hi) \div 2),
            SumOver(close, (lo + hi) \div 2 + 1, hi))

TrailingMean(close, t, w) ==
  IF t < w THEN NaN ELSE FDivCount(SumOver(close, t - w + 1, t), w)

\* C16: on a cleaned series with every close defined, MA_50 is undefined
\* before the 50th bar and from then on the mean of the last 50 closes;
\* MA_200 likewise with 200.  (SpecFork)
C16_MovingAverages ==
  pipeline.stage = 3 =>
    \A i \in DOMAIN stock_data :
      LET cols == stock_data[i].data.cols
      IN Defined(cols.Close) =>
           \A t \in DOMAIN cols.Close :
             /\ cols.MA_50[t] = TrailingMean(cols.Close, t, MaShortWindow)
             /\ cols.MA_200[t] = TrailingMean(cols.Close, t, MaLongWindow)

\* the forked series was fetched, cleaned and given its moving averages:
\* both undefined one bar before their window is full, defined from then on
C16_Witness ==
  /\ pipeline.stage = 3
  /\ \E i \in DOMAIN stock_data :
       LET cols == stock_data[i].data.cols
       IN /\ cols.Close = ForkedSeries
          /\ IsNaN(cols.MA_50[MaShortWindow - 1]) /\ NotNaN(cols.MA_50[MaShortWindow])
          /\ IsNaN(cols.MA_200[MaLongWindow - 1]) /\ NotNaN(cols.MA_200[MaLongWindow])
          /\ cols.MA_50[RampBars] # cols.MA_200[RampBars]

\* every raw column of the frame has an observation
Fillable(frame) == \A c \in RawColumns : SomeDefined(frame.cols[c])

\* C17 (as claimed): after clean_and_preprocess_data on a series whose
\* columns each have a defined value, every Open, High, Low, Close and
\* Volume is defined: gaps are filled from the nearest earlier value, leading
\* gaps from the nearest later one.  (SpecCleaner)
C17_NothingMissing ==
  [][CleanStep =>
       \A i \in DOMAIN stock_data :
         Fillable(stock_data[i].data) =>
           \A c \in RawColumns :
             /\ Defined(stock_data'[i].data.cols[c])
             /\ c # "Close" =>
                  stock_data'[i].data.cols[c] = NearestFill(stock_data[i].data.cols[c])]_vars

\* C17 (amended): after clean_and_preprocess_data on such a series every
\* Open, High, Low and Volume is defined and filled from the nearest earlier
\* or else nearest later value, and every Close is defined but that of the
\* last bar when it is flagged: it has no later neighbour and becomes
\* undefined.  (SpecCleaner)
C17_MissingOnlyLastFlagged ==
  [][CleanStep =>
       \A i \in DOMAIN stock_data :
         Fillable(stock_data[i].data) =>
           LET filled == NearestFill(stock_data[i].data.cols.Close)
               cleaned == stock_data'[i].data.cols
           IN /\ \A c \in RawColumns \ {"Close"} :
                   /\ Defined(cleaned[c])
                   /\ cleaned[c] = NearestFill(stock_data[i].data.cols[c])
              /\ \A t \in DOMAIN filled :
                   IsNaN(cleaned.Close[t]) <=> (t = Len(filled) /\ Flagged(filled, t))]_vars

\* a series with a leading gap and a 100% jump at its last bar, cleaned:
\* the gap is filled backward and the last close is undefined
C17_Witness ==
  /\ pipeline.stage = 2
  /\ \E i \in DOMAIN stock_data :
       /\ market[stock_data[i].symbol].cols.Close = SeriesOf(<<-1, 100, 200>>)
       /\ stock_data[i].data.cols.Open = SeriesOf(<<100, 100, 200>>)
       /\ stock_data[i].data.cols.Close = SeriesOf(<<100, 100, -1>>)

\* ------------------------------------------------------------------------
\* The run and the two dictionaries.
\* ------------------------------------------------------------------------
RunStep == last'.op = "run_complete_analysis"

\* C18: run_complete_analysis runs fetch, clean, indicators, analyze,
\* visualize, report in that order, each at most once; the stage that raises
\* is the last to run and its error is re-raised; on a new analyzer whose
\* fetch retrieves no symbol the run raises after the fetch and both
\* dictionaries stay empty.  (Spec)
C18_StagesInOrder ==
  [][RunStep =>
       LET reached == Len(last'.stages)
       IN /\ reached \in 1..Len(StageNames)
          /\ last'.stages = SubSeq(StageNames, 1, reached)
          /\ last'.raised = "none" <=> (reached = Len(StageNames) /\ last'.report.written)
          /\ last'.raised # "none" =>
               /\ ~last'.report.written
               /\ reached < 5 => last'.charts = {}
               /\ reached < 4 => analysis_results' = analysis_results
               /\ reached < 2 => stock_data' = stock_data
          /\ last'.raised = "Exception" <=> reached = 1
          /\ pipeline.stage = 0 =>
               ((\A k \in Keys(stocks) : pipeline'.outcome[k] # "data")
                  <=> /\ last'.raised = "Exception"
                      /\ last'.stages = <<"fetch_stock_data">>
                      /\ stock_data' = <<>>
                      /\ analysis_results' = EmptyResults)]_vars

\* on a new analyzer the run ended after the fetch, which retrieved nothing
C18_Witness ==
  /\ last.op = "run_complete_analysis"
  /\ last.raised = "Exception"
  /\ last.stages = <<"fetch_stock_data">>
  /\ pipeline.stage = 1
  /\ \A k \in Keys(stocks) : pipeline.outcome[k] \in {"empty", "error"}
  /\ stock_data = <<>>
  /\ analysis_results = EmptyResults

\* C19: the analysed symbols are symbols of the series store, which are
\* symbols of self.stocks, every stored series has a bar, and no step takes
\* a symbol out of stock_data or analysis_results.  (Spec)
C19_StoreInvariant ==
  /\ [](/\ DOMAIN analysis_results \subseteq Keys(stock_data)
        /\ Keys(stock_data) \subseteq Keys(stocks)
        /\ \A i \in DOMAIN stock_data : BarCount(stock_data[i].data) > 0)
  /\ [][/\ Keys(stock_data) \subseteq Keys(stock_data')
        /\ DOMAIN analysis_results \subseteq DOMAIN analysis_results']_vars

\* one symbol was analysed and a second one fetched after that
C19_Witness ==
  /\ last.op = "fetch_stock_data"
  /\ Len(stock_data) = 2
  /\ Cardinality(DOMAIN analysis_results) = 1

====
